---- MODULE Spec2Model ----
(***************************************************************************)
(* SlidingWindowPlaneExtractor: window scan, erosion, connected-component  *)
(* labelling, per-label plane fitting and RANSAC refinement, as a state    *)
(* machine over one extractor object that is run on a sequence of maps.    *)
(*                                                                         *)
(* Numerics.  Heights are NaN, 0 or 1, the resolution is one cell.  The    *)
(* eigen-decomposition of normalAndErrorFromCovariance is exact for the    *)
(* point sets whose answer does not depend on rounding: collinear points   *)
(* (degenerate branch: UnitZ, 1e30) and non-collinear points of equal      *)
(* height (UnitZ, error 0).  For every other point set the fitted normal   *)
(* is the abstract value "Est", and each threshold comparison on it is an  *)
(* unknown that is a function of the map: it is drawn once and remembered  *)
(* for as long as the same map is processed.  Thresholds are positive.     *)
(***************************************************************************)
EXTENDS Integers, Sequences, FiniteSets, TLC

\* ---------------------------------------------------------------- bounds
MaxHoleSites == 2   \* candidate cells that may hold a non-finite height
MaxBumpSites == 2   \* candidate cells that may hold height 1 instead of 0
MaxPlanes == 2      \* planes the RANSAC detector may return for one region
MaxRuns == 2        \* runExtraction calls counted by the repeat-run specification

\* ------------------------------------------------------------- constants
NaN == 0 - 1
KernelSize == 3

Sizes == {<<3, 5>>, <<4, 5>>}
HoleSiteList == << <<1, 2>>, <<2, 3>>, <<2, 2>>, <<0, 0>>, <<1, 1>> >>
BumpSiteList == << <<1, 3>>, <<2, 1>>, <<0, 1>>, <<1, 1>>, <<2, 2>> >>

Min(a, b) == IF a < b THEN a ELSE b
Abs(a) == IF a < 0 THEN 0 - a ELSE a

Cells(rows, cols) == (0 .. rows - 1) \X (0 .. cols - 1)

SitesOf(list, n) == {list[i] : i \in 1 .. Min(n, Len(list))}

\* The elevation layers the extractor is run on.
MakeMap(sz, holes, bumps) ==
  [rows |-> sz[1], cols |-> sz[2],
   height |-> [c \in Cells(sz[1], sz[2]) |->
                 IF c \in holes THEN NaN ELSE IF c \in bumps THEN 1 ELSE 0]]

Maps ==
  {MakeMap(sz, holes, bumps) :
     sz \in Sizes,
     holes \in SUBSET SitesOf(HoleSiteList, MaxHoleSites),
     bumps \in SUBSET SitesOf(BumpSiteList, MaxBumpSites)}

NoMap == [rows |-> 0, cols |-> 0, height |-> <<>>]

ParameterSets ==
  [connectivity : {4, 8},
   planarity_erosion : {0, 1},
   min_number_points_per_label : {1, 4},
   include_ransac_refinement : BOOLEAN]

isfinite(h) == h # NaN

\* ------------------------------------------------------------ geometry
Cross(u, v) ==
  << u[2] * v[3] - u[3] * v[2], u[3] * v[1] - u[1] * v[3], u[1] * v[2] - u[2] * v[1] >>

Minus(p, q) == << p[1] - q[1], p[2] - q[2], p[3] - q[3] >>

\* The covariance of P has a zero second eigenvalue: all points on one line.
Collinear(P) ==
  \/ Cardinality(P) <= 2
  \/ LET p0 == CHOOSE p \in P : TRUE
         p1 == CHOOSE p \in P : p # p0
     IN  \A p \in P : Cross(Minus(p1, p0), Minus(p, p0)) = <<0, 0, 0>>

Flat(P) == \A p, q \in P : p[3] = q[3]

normalAndErrorFromCovariance(P) ==
  IF ~Collinear(P)
  THEN IF Flat(P) THEN [normal |-> "Up", error |-> "0"]
       ELSE [normal |-> "Est", error |-> "Est"]
  ELSE [normal |-> "Up", error |-> "1e30"]

\* angle(normal, UnitZ) < plane_inclination_threshold_degrees
InclinationOk(normal, verdict) == IF normal = "Up" THEN TRUE ELSE verdict

\* ------------------------------------------------------- window scanning
kernelMiddle == (KernelSize - 1) \div 2

\* EdgeHandling::INSIDE: the cells whose whole window lies inside the map.
WindowCells(m) ==
  {c \in Cells(m.rows, m.cols) :
     /\ c[1] - kernelMiddle >= 0 /\ c[1] - kernelMiddle + KernelSize <= m.rows
     /\ c[2] - kernelMiddle >= 0 /\ c[2] - kernelMiddle + KernelSize <= m.cols}

WindowPoints(m, c) ==
  {<< 0 - kr, 0 - kc, m.height[<<c[1] - kernelMiddle + kr, c[2] - kernelMiddle + kc>>] >> :
     kr \in 0 .. KernelSize - 1, kc \in 0 .. KernelSize - 1}

computeNormalAndErrorForWindow(m, c) ==
  LET P == {p \in WindowPoints(m, c) : isfinite(p[3])}
  IN  IF Cardinality(P) < 3 THEN [normal |-> "Up", error |-> "1e30"]
      ELSE normalAndErrorFromCovariance(P)

\* The visited cells whose local verdict is not fixed by the exact cases.
OpenCells(m) ==
  {c \in WindowCells(m) :
     isfinite(m.height[c]) /\ computeNormalAndErrorForWindow(m, c).normal = "Est"}

isLocallyPlanar(fit, verdict) ==
  IF fit.error = "1e30" THEN FALSE
  ELSE IF fit.normal = "Up" THEN TRUE
  ELSE verdict

getLinearIndex(m, row, col) == row + col * m.rows

\* ------------------------------------------------- grid_map conversions
\* Lengths are counted in half cells, so that cell centres are integers.
Resolution == 2
MapPosition == <<0, 0>>

\* GridMap::getPosition: the centre of the cell at an index.
getPosition(m, index) ==
  << MapPosition[1] + (m.rows * Resolution) \div 2 - ((2 * index[1] + 1) * Resolution) \div 2,
     MapPosition[2] + (m.cols * Resolution) \div 2 - ((2 * index[2] + 1) * Resolution) \div 2 >>

\* getIndex with the row and column of the result exchanged.
getIndexTransposed(m, position) ==
  << (MapPosition[2] + (m.cols * Resolution) \div 2 - position[2]) \div Resolution,
     (MapPosition[1] + (m.rows * Resolution) \div 2 - position[1]) \div Resolution >>

\* GridMap::getIndex: the index of the cell that holds a position.
getIndex(m, position) ==
  << (MapPosition[1] + (m.rows * Resolution) \div 2 - position[1]) \div Resolution,
     (MapPosition[2] + (m.cols * Resolution) \div 2 - position[2]) \div Resolution >>

\* ---------------------------------------------- OpenCV erode / labelling
\* cv::erode with a MORPH_CROSS element of size 2r+1; outside pixels do not erode.
Erode(mask, r) ==
  [c \in DOMAIN mask |->
     \A d \in DOMAIN mask :
        ((d[1] = c[1] /\ Abs(d[2] - c[2]) <= r) \/ (d[2] = c[2] /\ Abs(d[1] - c[1]) <= r))
           => mask[d]]

Adjacent(c, d, connectivity) ==
  /\ c # d
  /\ IF connectivity = 4
     THEN Abs(c[1] - d[1]) + Abs(c[2] - d[2]) = 1
     ELSE Abs(c[1] - d[1]) <= 1 /\ Abs(c[2] - d[2]) <= 1

RECURSIVE Grow(_, _, _)
Grow(comp, S, connectivity) ==
  LET nxt == comp \cup {d \in S : \E c \in comp : Adjacent(c, d, connectivity)}
  IN  IF nxt = comp THEN comp ELSE Grow(nxt, S, connectivity)

\* Row-major scan position of a pixel.
ScanRank(c, cols) == c[1] * cols + c[2]

\* cv::connectedComponents: components numbered from 1 in the order the row-major
\* scan meets their first pixel; img maps every pixel to its label, 0 = background.
RECURSIVE LabelFrom(_, _, _, _, _)
LabelFrom(todo, img, next, cols, connectivity) ==
  IF todo = {} THEN [image |-> img, numberOfLabel |-> next]
  ELSE LET first == CHOOSE c \in todo : \A d \in todo : ScanRank(c, cols) <= ScanRank(d, cols)
           comp == Grow({first}, todo, connectivity)
       IN  LabelFrom(todo \ comp, [c \in DOMAIN img |-> IF c \in comp THEN next ELSE img[c]],
                     next + 1, cols, connectivity)

connectedComponents(mask, cols, connectivity) ==
  LabelFrom({c \in DOMAIN mask : mask[c]}, [c \in DOMAIN mask |-> 0], 1, cols, connectivity)

\* ------------------------------------------------------------------ state
VARIABLES
  parameters_,            \* SlidingWindowPlaneExtractorParameters, fixed at construction
  map_,                   \* the map of the current run
  binaryImagePatch_,      \* pixel -> planar?
  surfaceNormals_,        \* the normal buffer, 1 + linear index -> [n: the normal,
                          \*   by: history, who wrote it ("stale", "fill", "scan")]
  labeledImage,           \* segmentedPlanesMap_.labeledImage
  highestLabel,           \* segmentedPlanesMap_.highestLabel
  labelPlaneParameters,   \* segmentedPlanesMap_.labelPlaneParameters
  pc,                     \* position inside runExtraction
  label,                  \* loop variable of extractPlaneParametersFromLabeledImage
  numberOfExtractedPlanesWithoutRefinement,
  pointsWithNormal,       \* the work vector
  planes,                 \* detected planes: sequence of index sets into pointsWithNormal
  unassigned,             \* getUnassignedPointIndices
  planeIdx,               \* position of the loop over planes
  reuseLabel,
  localFacts,             \* remembered local verdicts for map_ ({} : none yet)
  gpFacts,                \* remembered isGloballyPlanar verdicts, by cell set
  inclFacts,              \* remembered inclination verdicts, by cell set
  badRead,                \* history: a buffer entry not written by this run's scan was read
  region,                 \* history: the label processed last, its outcome and the state before
  runs,                   \* history: completed runs (repeat-run specification)
  firstResult             \* history: the result of the first completed run

vars ==
  << parameters_, map_, binaryImagePatch_, surfaceNormals_, labeledImage, highestLabel,
     labelPlaneParameters, pc, label, numberOfExtractedPlanesWithoutRefinement,
     pointsWithNormal, planes, unassigned, planeIdx, reuseLabel, localFacts, gpFacts,
     inclFacts, badRead, region, runs, firstResult >>

NoRegion ==
  [label |-> 0, outcome |-> "none", gp |-> TRUE, image0 |-> <<>>, hl0 |-> 0, entries0 |-> 0]
NoResult == [labeledImage |-> <<>>, highestLabel |-> 0, labelPlaneParameters |-> <<>>]

Init ==
  /\ parameters_ \in ParameterSets
  /\ map_ = NoMap
  /\ binaryImagePatch_ = <<>>
  /\ surfaceNormals_ = <<>>
  /\ labeledImage = <<>>
  /\ highestLabel = 0
  /\ labelPlaneParameters = <<>>
  /\ pc = "idle"
  /\ label = 0
  /\ numberOfExtractedPlanesWithoutRefinement = 0
  /\ pointsWithNormal = <<>>
  /\ planes = <<>>
  /\ unassigned = {}
  /\ planeIdx = 0
  /\ reuseLabel = TRUE
  /\ localFacts = {}
  /\ gpFacts = <<>>
  /\ inclFacts = <<>>
  /\ badRead = FALSE
  /\ region = NoRegion
  /\ runs = 0
  /\ firstResult = NoResult

\* ---------------------------------------------------------- runExtraction
\* std::vector::reserve leaves size() alone and nothing else resizes the buffer.
SurfaceNormalsSize == 0

\* Line 69: labelPlaneParameters.clear().
KeptPlanes(list) == list

ClearedPlanes(list) == <<>>

\* Lines 60-77: bind the map, reset the result, recreate the mask, prepare the buffer.
RunExtraction(m) ==
  /\ pc = "idle"
  /\ map_' = m
  /\ highestLabel' = 0 - 1
  /\ labelPlaneParameters' = ClearedPlanes(labelPlaneParameters)
  /\ binaryImagePatch_' = [c \in Cells(m.rows, m.cols) |-> FALSE]
  /\ LET linearMapSize == m.rows * m.cols
         capacity == IF Len(surfaceNormals_) < linearMapSize THEN linearMapSize
                     ELSE Len(surfaceNormals_)
     IN  IF SurfaceNormalsSize < linearMapSize
         THEN surfaceNormals_' =
                [i \in 1 .. capacity |->
                   IF i <= linearMapSize THEN [n |-> "Zero", by |-> "fill"]
                   ELSE [surfaceNormals_[i] EXCEPT !.by = "stale"]]
         ELSE surfaceNormals_' =
                [i \in 1 .. Len(surfaceNormals_) |-> [surfaceNormals_[i] EXCEPT !.by = "stale"]]
  /\ IF m = map_
     THEN UNCHANGED << localFacts, gpFacts, inclFacts >>
     ELSE localFacts' = {} /\ gpFacts' = <<>> /\ inclFacts' = <<>>
  /\ pc' = "scan"
  /\ UNCHANGED << parameters_, labeledImage, label, numberOfExtractedPlanesWithoutRefinement,
                  pointsWithNormal, planes, unassigned, planeIdx, reuseLabel, badRead, region,
                  runs, firstResult >>

\* The scan loop without line 135.
ScanNormalsNotStored(m, normals) == normals

\* The buffer after the scan loop: the normal of every visited cell of finite height.
ScanNormals(m, normals) ==
  [i \in DOMAIN normals |->
     IF \E c \in WindowCells(m) : isfinite(m.height[c]) /\ getLinearIndex(m, c[1], c[2]) + 1 = i
     THEN LET c == CHOOSE c \in WindowCells(m) :
                     isfinite(m.height[c]) /\ getLinearIndex(m, c[1], c[2]) + 1 = i
          IN  [n |-> computeNormalAndErrorForWindow(m, c).normal, by |-> "scan"]
     ELSE normals[i]]

\* The scan loop without the test of line 128.
ScanMaskNoFiniteTest(m, mask, verdict) ==
  [c \in DOMAIN mask |->
     IF c \in WindowCells(m)
     THEN isLocallyPlanar(computeNormalAndErrorForWindow(m, c),
                          IF c \in DOMAIN verdict THEN verdict[c] ELSE FALSE)
     ELSE mask[c]]

\* The mask after the scan loop.
ScanMask(m, mask, verdict) ==
  [c \in DOMAIN mask |->
     IF c \in WindowCells(m)
     THEN IF ~isfinite(m.height[c]) THEN FALSE
          ELSE isLocallyPlanar(computeNormalAndErrorForWindow(m, c),
                               IF c \in DOMAIN verdict THEN verdict[c] ELSE FALSE)
     ELSE mask[c]]

\* Lines 119-138: the loop over the sliding window.
WindowScan ==
  /\ pc = "scan"
  /\ \E verdict \in (IF localFacts = {} THEN [OpenCells(map_) -> BOOLEAN] ELSE localFacts) :
        /\ binaryImagePatch_' = ScanMask(map_, binaryImagePatch_, verdict)
        /\ localFacts' = {verdict}
  /\ surfaceNormals_' = ScanNormals(map_, surfaceNormals_)
  /\ pc' = "erode"
  /\ UNCHANGED << parameters_, map_, labeledImage, highestLabel, labelPlaneParameters, label,
                  numberOfExtractedPlanesWithoutRefinement, pointsWithNormal, planes,
                  unassigned, planeIdx, reuseLabel, gpFacts, inclFacts, badRead, region,
                  runs, firstResult >>

\* Lines 140-146: erosion of the mask.
ErodeMask ==
  /\ pc = "erode"
  /\ binaryImagePatch_' =
       IF parameters_.planarity_erosion > 0
       THEN Erode(binaryImagePatch_, parameters_.planarity_erosion)
       ELSE binaryImagePatch_
  /\ pc' = "segment"
  /\ UNCHANGED << parameters_, map_, surfaceNormals_, labeledImage, highestLabel,
                  labelPlaneParameters, label, numberOfExtractedPlanesWithoutRefinement,
                  pointsWithNormal, planes, unassigned, planeIdx, reuseLabel, localFacts,
                  gpFacts, inclFacts, badRead, region, runs, firstResult >>

\* Lines 150-153.
runSegmentation ==
  /\ pc = "segment"
  /\ LET cc == connectedComponents(binaryImagePatch_, map_.cols, parameters_.connectivity)
     IN  /\ labeledImage' = cc.image
         /\ highestLabel' = cc.numberOfLabel - 1
  /\ pc' = "begin"
  /\ UNCHANGED << parameters_, map_, binaryImagePatch_, surfaceNormals_, labelPlaneParameters,
                  label, numberOfExtractedPlanesWithoutRefinement, pointsWithNormal, planes,
                  unassigned, planeIdx, reuseLabel, localFacts, gpFacts, inclFacts,
                  badRead, region, runs, firstResult >>

\* Lines 155-164: the local copy of highestLabel and the first loop value.
extractPlaneParametersFromLabeledImage ==
  /\ pc = "begin"
  /\ numberOfExtractedPlanesWithoutRefinement' = highestLabel
  /\ pointsWithNormal' = <<>>
  /\ label' = 1
  /\ pc' = "extract"
  /\ UNCHANGED << parameters_, map_, binaryImagePatch_, surfaceNormals_, labeledImage,
                  highestLabel, labelPlaneParameters, planes, unassigned, planeIdx, reuseLabel,
                  localFacts, gpFacts, inclFacts, badRead, region, runs,
                  firstResult >>

\* ------------------------------------------- computePlaneParametersForLabel
\* Lines 177-196: the cells the double loop collects, col outer, row inner.
LabelCells(m, img, l) == {c \in DOMAIN img : img[c] = l /\ isfinite(m.height[c])}

RECURSIVE InLoopOrder(_, _)
InLoopOrder(S, rows) ==
  IF S = {} THEN <<>>
  ELSE LET c == CHOOSE c \in S : \A d \in S : c[2] * rows + c[1] <= d[2] * rows + d[1]
       IN  <<c>> \o InLoopOrder(S \ {c}, rows)

CollectPoints(m, img, normals, l) ==
  LET order == InLoopOrder(LabelCells(m, img, l), m.rows)
      mapOrigin == getPosition(m, <<0, 0>>)
  IN  [i \in 1 .. Len(order) |->
         [x |-> mapOrigin[1] - order[i][1] * Resolution,
          y |-> mapOrigin[2] - order[i][2] * Resolution,
          z |-> m.height[order[i]],
          n |-> normals[getLinearIndex(m, order[i][1], order[i][2]) + 1].n]]

PointSet(pts, indices) == {<< pts[i].x, pts[i].y, pts[i].z >> : i \in indices}

\* Lines 272-291.  A zero point normal is 90 degrees from any unit normal.
GloballyPlanarExact(normal, pts) ==
  /\ normal = "Up"
  /\ Flat(PointSet(pts, DOMAIN pts))
  /\ \A i \in DOMAIN pts : pts[i].n = "Up"

isGloballyPlanar(normal, pts, verdict) ==
  IF \E i \in DOMAIN pts : pts[i].n = "Zero" THEN FALSE
  ELSE IF GloballyPlanarExact(normal, pts) THEN TRUE
  ELSE verdict

GloballyPlanarOpen(normal, pts) ==
  /\ \A i \in DOMAIN pts : pts[i].n # "Zero"
  /\ ~GloballyPlanarExact(normal, pts)

\* The verdicts a comparison may take: remembered, or not yet known.
Verdicts(facts, key, open) ==
  IF ~open THEN {TRUE} ELSE IF key \in DOMAIN facts THEN {facts[key]} ELSE BOOLEAN

Remember(facts, key, open, verdict) ==
  IF open /\ key \notin DOMAIN facts THEN facts @@ (key :> verdict) ELSE facts

\* RansacPlaneExtractor::detectPlanes on n points: every point is claimed by one of
\* k <= MaxPlanes planes or by none, and every plane claims at least one point.  The
\* detector may reorder the points; an index set stands for the points it names.
Detections(n) ==
  {a \in [1 .. n -> 0 .. MaxPlanes] :
     \A i \in 1 .. MaxPlanes : (\E j \in 1 .. n : a[j] = i) =>
        \A h \in 1 .. i - 1 : \E j \in 1 .. n : a[j] = h}

DetectedPlanes(a) ==
  LET k == Cardinality({a[j] : j \in DOMAIN a} \ {0})
  IN  [i \in 1 .. k |-> {j \in DOMAIN a : a[j] = i}]

UnassignedPointIndices(a) == {j \in DOMAIN a : a[j] = 0}

\* Lines 206-213 with the global test applied whether or not refinement is enabled.
DecideAlwaysTested(params, numPoints, gp, incl) ==
  IF numPoints < params.min_number_points_per_label \/ numPoints < 3 THEN "few"
  ELSE IF ~gp THEN (IF params.include_ransac_refinement THEN "refine" ELSE "steep")
  ELSE IF incl THEN "emit"
  ELSE "steep"

\* Lines 197-213: what happens to the label once its points are collected.
\* "few": too few points; "refine": handed to refineLabelWithRansac;
\* "emit": plane appended; "steep": inclination too large.
Decide(params, numPoints, gp, incl) ==
  IF numPoints < params.min_number_points_per_label \/ numPoints < 3 THEN "few"
  ELSE IF params.include_ransac_refinement /\ ~gp THEN "refine"
  ELSE IF incl THEN "emit"
  ELSE "steep"

Plane(l, P, normal) == [label |-> l, support |-> P, normal |-> normal]

\* Line 164: the loop runs to the local copy, not to the live highestLabel.
LoopBoundLive(copy, highest) == highest

LoopBound(copy, highest) == copy

\* Lines 169-214, and lines 218-225 when the label is handed to refinement.
computePlaneParametersForLabel ==
  /\ pc = "extract"
  /\ label <= LoopBound(numberOfExtractedPlanesWithoutRefinement, highestLabel)
  /\ LET pts == CollectPoints(map_, labeledImage, surfaceNormals_, label)
         P == PointSet(pts, DOMAIN pts)
         numPoints == Len(pts)
         enough == ~(numPoints < parameters_.min_number_points_per_label \/ numPoints < 3)
         normalVector == normalAndErrorFromCovariance(P).normal
         gpOpen == enough /\ GloballyPlanarOpen(normalVector, pts)
     IN  /\ pointsWithNormal' = pts
         /\ badRead' = (badRead \/ \E c \in LabelCells(map_, labeledImage, label) :
                           surfaceNormals_[getLinearIndex(map_, c[1], c[2]) + 1].by # "scan")
         /\ \E gpVerdict \in Verdicts(gpFacts, P, gpOpen) :
              LET gp == isGloballyPlanar(normalVector, pts, gpVerdict)
                  inclOpen == enough /\ normalVector = "Est"
                                /\ ~(parameters_.include_ransac_refinement /\ ~gp)
              IN  \E inclVerdict \in Verdicts(inclFacts, P, inclOpen) :
                    LET outcome == Decide(parameters_, numPoints, gp,
                                          InclinationOk(normalVector, inclVerdict))
                    IN  /\ gpFacts' = Remember(gpFacts, P, gpOpen, gpVerdict)
                        /\ inclFacts' = Remember(inclFacts, P, inclOpen, inclVerdict)
                        /\ region' = [label |-> label, outcome |-> outcome, gp |-> gp,
                                      image0 |-> labeledImage, hl0 |-> highestLabel,
                                      entries0 |-> Len(labelPlaneParameters)]
                        /\ labelPlaneParameters' =
                             IF outcome = "emit"
                             THEN Append(labelPlaneParameters, Plane(label, P, normalVector))
                             ELSE labelPlaneParameters
                        /\ IF outcome = "refine"
                           THEN /\ \E a \in Detections(numPoints) :
                                     /\ planes' = DetectedPlanes(a)
                                     /\ unassigned' = UnassignedPointIndices(a)
                                /\ planeIdx' = 1
                                /\ reuseLabel' = TRUE
                                /\ pc' = "ransac"
                                /\ label' = label
                           ELSE /\ pc' = "extract"
                                /\ label' = label + 1
                                /\ UNCHANGED << planes, unassigned, planeIdx, reuseLabel >>
  /\ UNCHANGED << parameters_, map_, binaryImagePatch_, surfaceNormals_, labeledImage,
                  highestLabel, numberOfExtractedPlanesWithoutRefinement, localFacts,
                  runs, firstResult >>

\* ---------------------------------------------------- refineLabelWithRansac
\* Line 228 with every plane reusing the label.
NewLabelAlwaysReuse(reuse, l, highest) == l

\* Line 228 with a post-increment.
NewLabelPostIncrement(reuse, l, highest) == IF reuse THEN l ELSE highest

\* Line 228.
NewLabel(reuse, l, highest) == IF reuse THEN l ELSE highest + 1

\* Lines 235-249: the cells of a plane's points take newLabel unless it is the old one.
Relabel(m, img, pts, indices, newLabel, l) ==
  IF newLabel # l
  THEN [c \in DOMAIN img |->
          IF \E i \in indices : getIndex(m, << pts[i].x, pts[i].y >>) = c
          THEN newLabel ELSE img[c]]
  ELSE img

\* Lines 226-259: one iteration of the loop over the detected planes.
RefinePlane ==
  /\ pc = "ransac"
  /\ planeIdx <= Len(planes)
  /\ LET newLabel == NewLabel(reuseLabel, label, highestLabel)
         P == PointSet(pointsWithNormal, planes[planeIdx])
         normalVector == normalAndErrorFromCovariance(P).normal
         inclOpen == normalVector = "Est"
     IN  /\ highestLabel' = IF reuseLabel THEN highestLabel ELSE highestLabel + 1
         /\ reuseLabel' = FALSE
         /\ labeledImage' =
              Relabel(map_, labeledImage, pointsWithNormal, planes[planeIdx], newLabel, label)
         /\ \E inclVerdict \in Verdicts(inclFacts, P, inclOpen) :
              /\ inclFacts' = Remember(inclFacts, P, inclOpen, inclVerdict)
              /\ labelPlaneParameters' =
                   IF InclinationOk(normalVector, inclVerdict)
                   THEN Append(labelPlaneParameters, Plane(newLabel, P, normalVector))
                   ELSE labelPlaneParameters
  /\ planeIdx' = planeIdx + 1
  /\ UNCHANGED << parameters_, map_, binaryImagePatch_, surfaceNormals_, pc, label,
                  numberOfExtractedPlanesWithoutRefinement, pointsWithNormal, planes,
                  unassigned, localFacts, gpFacts, badRead, region, runs,
                  firstResult >>

\* Lines 261-269 left out.
ResetUnassignedSkipped(m, img, pts, indices) == img

\* Lines 261-269: the cells of the unassigned points go back to label 0.
ResetUnassigned(m, img, pts, indices) ==
  [c \in DOMAIN img |->
     IF \E i \in indices : getIndex(m, << pts[i].x, pts[i].y >>) = c THEN 0 ELSE img[c]]

RefineUnassigned ==
  /\ pc = "ransac"
  /\ planeIdx > Len(planes)
  /\ labeledImage' = ResetUnassigned(map_, labeledImage, pointsWithNormal, unassigned)
  /\ region' = [region EXCEPT !.outcome = "refined"]
  /\ pc' = "extract"
  /\ label' = label + 1
  /\ UNCHANGED << parameters_, map_, binaryImagePatch_, surfaceNormals_, highestLabel,
                  labelPlaneParameters, numberOfExtractedPlanesWithoutRefinement,
                  pointsWithNormal, planes, unassigned, planeIdx, reuseLabel, localFacts,
                  gpFacts, inclFacts, badRead, runs, firstResult >>

\* Line 164 leaves the loop and runExtraction returns.
Result == [labeledImage |-> labeledImage, highestLabel |-> highestLabel,
           labelPlaneParameters |-> labelPlaneParameters]

runExtractionReturns(counted) ==
  /\ pc = "extract"
  /\ label > LoopBound(numberOfExtractedPlanesWithoutRefinement, highestLabel)
  /\ pc' = "idle"
  /\ label' = 0
  /\ numberOfExtractedPlanesWithoutRefinement' = 0
  /\ pointsWithNormal' = <<>>
  /\ planes' = <<>>
  /\ unassigned' = {}
  /\ planeIdx' = 0
  /\ reuseLabel' = TRUE
  /\ region' = NoRegion
  /\ IF counted
     THEN /\ runs' = runs + 1
          /\ firstResult' = IF runs = 0 THEN Result ELSE firstResult
     ELSE UNCHANGED << runs, firstResult >>
  /\ UNCHANGED << parameters_, map_, binaryImagePatch_, surfaceNormals_, labeledImage,
                  highestLabel, labelPlaneParameters, localFacts, gpFacts, inclFacts,
                  badRead >>

\* ---------------------------------------------------------- specifications
\* One extraction on a freshly constructed extractor.
Next ==
  \/ \E m \in Maps : runs < 1 /\ RunExtraction(m)
  \/ WindowScan
  \/ ErodeMask
  \/ runSegmentation
  \/ extractPlaneParametersFromLabeledImage
  \/ computePlaneParametersForLabel
  \/ RefinePlane
  \/ RefineUnassigned
  \/ runExtractionReturns(TRUE)

Spec == Init /\ [][Next]_vars

\* The same map handed to runExtraction again, refinement disabled.
InitRepeat == Init /\ ~parameters_.include_ransac_refinement

NextRepeat ==
  \/ \E m \in Maps : runs < MaxRuns /\ (runs > 0 => m = map_) /\ RunExtraction(m)
  \/ WindowScan
  \/ ErodeMask
  \/ runSegmentation
  \/ extractPlaneParametersFromLabeledImage
  \/ computePlaneParametersForLabel
  \/ runExtractionReturns(TRUE)

SpecRepeat == InitRepeat /\ [][NextRepeat]_vars

\* A sequence of extractions on one extractor, each on a new map, of both sizes in
\* any order.
RunMaps ==
  {MakeMap(sz, holes, bumps) :
     sz \in Sizes,
     holes \in SUBSET SitesOf(HoleSiteList, 1),
     bumps \in SUBSET SitesOf(BumpSiteList, 1)}

InitRuns ==
  /\ Init
  /\ parameters_.planarity_erosion = 0
  /\ parameters_.min_number_points_per_label = 1

NextRuns ==
  \/ \E m \in RunMaps : m # map_ /\ RunExtraction(m)
  \/ WindowScan
  \/ ErodeMask
  \/ runSegmentation
  \/ extractPlaneParametersFromLabeledImage
  \/ computePlaneParametersForLabel
  \/ RefinePlane
  \/ RefineUnassigned
  \/ runExtractionReturns(FALSE)

SpecRuns == InitRuns /\ [][NextRuns]_vars

\* ------------------------------------------------------------- properties
\* The cell whose centre is a collected point.
CellAt(pt) == CHOOSE c \in DOMAIN labeledImage : getPosition(map_, c) = << pt.x, pt.y >>

HasEntry(l) == \E i \in DOMAIN labelPlaneParameters : labelPlaneParameters[i].label = l

\* The label just processed was handed to refineLabelWithRansac, which has returned.
Refined == pc = "extract" /\ region.outcome = "refined"

\* Inside refineLabelWithRansac, or just after it.
Refining == pc = "ransac" \/ Refined

\* C1: no label is the key of two entries of labelPlaneParameters.
C1_PlanePerLabel ==
  \A i, j \in DOMAIN labelPlaneParameters :
     i # j => labelPlaneParameters[i].label # labelPlaneParameters[j].label

C1_Witness ==
  /\ Refined
  /\ Len(planes) >= 2
  /\ Len(labelPlaneParameters) >= region.entries0 + 2

\* C2: after the first j detected planes of region L are processed, the cells of
\* plane 1 still carry L, the cells of plane i >= 2 carry (highestLabel at entry) + i - 1,
\* and highestLabel has grown by max(j - 1, 0), whatever the inclination checks said.
C2_LabelBookkeeping ==
  Refining =>
    LET done == planeIdx - 1
    IN  /\ highestLabel = region.hl0 + (IF done >= 1 THEN done - 1 ELSE 0)
        /\ \A i \in 1 .. done : \A idx \in planes[i] :
              labeledImage[CellAt(pointsWithNormal[idx])] =
                 (IF i = 1 THEN region.label ELSE region.hl0 + i - 1)
        /\ done >= 1 => \A idx \in planes[1] :
              region.image0[CellAt(pointsWithNormal[idx])] = region.label

\* A second plane too steep: its label is consumed and worn by cells, with no entry.
C2_Witness ==
  /\ Refined
  /\ Len(planes) >= 2
  /\ highestLabel = region.hl0 + Len(planes) - 1
  /\ ~HasEntry(region.hl0 + 1)
  /\ \E c \in DOMAIN labeledImage : labeledImage[c] = region.hl0 + 1

\* C3: after refinement of region L the cells of the unassigned points carry 0; with
\* zero planes no finite cell carries L, L has no entry and highestLabel is unchanged.
C3_UnassignedToBackground ==
  Refined =>
    /\ \A idx \in unassigned : labeledImage[CellAt(pointsWithNormal[idx])] = 0
    /\ Len(planes) = 0 =>
         /\ \A c \in DOMAIN labeledImage :
               isfinite(map_.height[c]) => labeledImage[c] # region.label
         /\ ~HasEntry(region.label)
         /\ highestLabel = region.hl0

C3_Witness ==
  /\ Refined
  /\ Len(planes) = 0
  /\ Cardinality(unassigned) >= 3

\* Between runSegmentation and the return of runExtraction.
InRun == pc \in {"begin", "extract", "ransac"}

\* What one step of a run does to highestLabel, to the labels and to the loop variable.
C4_Step ==
  /\ InRun => highestLabel' >= highestLabel
  /\ (pc = "ransac" /\ highestLabel' # highestLabel) =>
        /\ highestLabel' = highestLabel + 1
        /\ highestLabel' > numberOfExtractedPlanesWithoutRefinement
        /\ \A c \in DOMAIN labeledImage : labeledImage[c] # highestLabel'
        /\ ~HasEntry(highestLabel')
        /\ \A c \in DOMAIN labeledImage :
              labeledImage'[c] # labeledImage[c] => labeledImage'[c] = highestLabel'
  /\ pc = "begin" => (label' = 1 /\ numberOfExtractedPlanesWithoutRefinement' = highestLabel)
  /\ pc \in {"extract", "ransac"} =>
        /\ pc' # "idle" =>
             /\ numberOfExtractedPlanesWithoutRefinement' = numberOfExtractedPlanesWithoutRefinement
             /\ label \in 1 .. numberOfExtractedPlanesWithoutRefinement
             /\ label' = (IF pc' = "ransac" THEN label ELSE label + 1)
        /\ pc' = "idle" => label = numberOfExtractedPlanesWithoutRefinement + 1

\* C4: from runSegmentation to the end of the run highestLabel never decreases; a
\* label minted by refinement exceeds the captured initial highestLabel and is worn by
\* no cell and keyed by no entry before; the loop visits 1 .. initial highestLabel in
\* ascending order, each once, and only then returns.
C4_LabelsOnlyGrow == [][C4_Step]_vars

\* A label was minted while an original label is still to be visited.
C4_Witness ==
  /\ pc = "extract"
  /\ highestLabel > numberOfExtractedPlanesWithoutRefinement
  /\ label <= numberOfExtractedPlanesWithoutRefinement

\* C5: a cell of non-finite height has a false mask entry after the scan and after
\* the erosion, and label 0 from segmentation to the end of the run.
C5_BackgroundStability ==
  \A c \in DOMAIN map_.height :
     ~isfinite(map_.height[c]) =>
        /\ pc \in {"erode", "segment"} => ~binaryImagePatch_[c]
        /\ (InRun \/ (pc = "idle" /\ runs > 0)) => labeledImage[c] = 0

\* A scanned cell without height, with planar neighbours relabelled by refinement.
C5_Witness ==
  /\ Refined
  /\ highestLabel > region.hl0
  /\ \E c \in WindowCells(map_) :
        /\ ~isfinite(map_.height[c])
        /\ \E d \in DOMAIN labeledImage : Adjacent(c, d, 4) /\ labeledImage[d] > region.hl0

\* The fitted normal of the label just processed passes the inclination check.
RegionInclinationOk ==
  LET P == PointSet(pointsWithNormal, DOMAIN pointsWithNormal)
  IN  \/ normalAndErrorFromCovariance(P).normal = "Up"
      \/ (P \in DOMAIN inclFacts /\ inclFacts[P])

Fitted == pc = "extract" /\ region.outcome \in {"emit", "steep"}

\* C6 as claimed: with refinement disabled, a region with enough points that fails
\* the global planarity test gets no entry.
C6_Claimed ==
  (Fitted /\ ~parameters_.include_ransac_refinement /\ ~region.gp) => ~HasEntry(region.label)

\* C6 as amended: with refinement disabled the global planarity test is not
\* consulted; a region with enough points gets an entry exactly when its fitted
\* normal passes the inclination check, also when it fails the global test.
C6_RefinementOffSkipsGlobalTest ==
  (Fitted /\ ~parameters_.include_ransac_refinement) =>
     (HasEntry(region.label) <=> RegionInclinationOk)

C6_Witness ==
  /\ Fitted
  /\ ~parameters_.include_ransac_refinement
  /\ ~region.gp
  /\ HasEntry(region.label)

C8_SecondRunSameResult ==
  (pc = "idle" /\ runs >= 2) => Result = firstResult

C8_Witness ==
  /\ pc = "idle"
  /\ runs >= 2
  /\ highestLabel >= 2
  /\ Len(labelPlaneParameters) >= 1

\* C9: processing label L changes no cell that did not carry L when it began, and
\* without refinement it changes neither the labeled raster nor highestLabel.
C9_Frame ==
  (pc \in {"extract", "ransac"} /\ region.outcome # "none") =>
     /\ \A c \in DOMAIN labeledImage :
           region.image0[c] # region.label => labeledImage[c] = region.image0[c]
     /\ region.outcome \in {"few", "emit", "steep"} =>
           (labeledImage = region.image0 /\ highestLabel = region.hl0)

\* A region split in two by refinement while another region exists.
C9_Witness ==
  /\ Refined
  /\ Len(planes) >= 2
  /\ \E c \in DOMAIN labeledImage : region.image0[c] \notin {0, region.label}

\* C10: plane fitting reads no buffer entry but those the window scan of the same
\* run has written.
C10_NoStaleNormalRead == ~badRead

\* Normals were read in a run on a map smaller than the buffer an earlier run left.
C10_Witness ==
  /\ pc = "extract"
  /\ region.outcome # "none"
  /\ Len(pointsWithNormal) >= 3
  /\ Len(surfaceNormals_) > map_.rows * map_.cols

====
